---- MODULE Spec2Model ----
(***************************************************************************)
(* rclone-move (src/entrypoint.py): a polling loop that moves files whose  *)
(* size stopped changing from a staging tree to a destination, and a       *)
(* background thread that keeps the destination under RCLONE_SIZE_LIMIT by *)
(* deleting the oldest objects.                                            *)
(*                                                                         *)
(* The model has three processes: the main loop (lines 179-229), the       *)
(* _cleanup threads started by cleanup() (lines 128-157) and a producer    *)
(* that writes into the staging tree.  truncate_names (lines 111-124) is  *)
(* a rename of the over-long file in that machine; TruncSpec checks what   *)
(* it does to one path, character by character, and ProbeSpec follows the  *)
(* worker pool of get_existing_files (lines 94-108).                       *)
(***************************************************************************)
EXTENDS Integers, Sequences, FiniteSets, TLC

\* ------------------------------------------------------------------ bounds
MaxSize == 2        \* staging files have sizes 1..MaxSize
MaxQuota == 3       \* RCLONE_SIZE_LIMIT is unset, 0 or MaxQuota
MaxMTime == 2       \* modification times are 1..MaxMTime
MaxThreads == 2     \* Thread objects that can exist at the same time
MaxFaults == 1      \* failing rclone invocations in one behaviour
MaxWrites == 2      \* writes of the producer in one behaviour
MaxPath == 6        \* TruncSpec: the longest path
MaxLimit == 5       \* TruncSpec: the largest MAX_PATH_LENGTH
MaxCandidates == 6  \* ProbeSpec: the longest include_files

\* line 98
max_workers == 5

\* ------------------------------------------------------------- vocabulary
Files == {"a", "b"}
Old == "old"
Objects == Files \cup {Old}
ScanOrder == <<"a", "b">>
ListOrder == <<"old", "a", "b", "bb">>
\* a file whose path is longer than MAX_PATH_LENGTH, and what line 122 makes
\* of a path
Long == "bb"
Truncated(f) == IF f = Long THEN "b" ELSE f
OldSize == MaxQuota + 1
Quotas == {0, MaxQuota}
Unset == -1
None == 0
Threads == 1..MaxThreads
MTime(o) == IF o = Old THEN 1 ELSE MaxMTime
Now == MaxMTime
EmptyMap == [f \in {} |-> 0]

VARIABLES
    size_limit,       \* environ RCLONE_SIZE_LIMIT: Unset or a number
    staging,          \* the files under SOURCE: path -> size
    dest,             \* the objects under DEST: path -> [Size, ModTime]
    pc,               \* the main loop's position
    prev_file_sizes,  \* line 180
    new_file_sizes,   \* line 196
    existing_files,   \* line 206
    include_files,    \* line 195: [none, files]; none is Python's None
    cleanup_thread,   \* line 126: None or the latest Thread
    thr,              \* the Thread objects: [pc, files, oldest, listed];
                      \* listed: how the pass's lsjson of line 137 went
    requests,         \* what each cleanup() call of the current poll cycle
                      \* did: "started", or "dropped" (line 154's message)
    writes,           \* writes of the producer so far
    faults,           \* failed rclone invocations so far
    evict_failed,     \* an rcat, touch or delete of a pass has failed
    joined,           \* the except handler had to join a running pass
    MAX_PATH_LENGTH,  \* line 32; 0 stands for None
    entry,            \* TruncSpec: the DirEntry f truncate_names is at:
                      \* [path, was, at]
    executor          \* ProbeSpec: the pool of line 98 and its caller:
                      \* [n, queue, running, done, found, collected,
                      \* existing, at]

vars == <<size_limit, staging, dest, pc, prev_file_sizes, new_file_sizes,
          existing_files, include_files, cleanup_thread, thr, requests,
          writes, faults, evict_failed, joined, MAX_PATH_LENGTH,
          entry, executor>>

\* what the main loop's machine leaves alone: one path under truncate_names
\* and the inside of get_existing_files
sideVars == <<MAX_PATH_LENGTH, entry, executor>>

mainVars == <<pc, prev_file_sizes, new_file_sizes, existing_files,
              include_files, requests, joined>>

\* ---------------------------------------------------------------- helpers
RECURSIVE Usage(_)
Usage(files) ==
    IF files = <<>> THEN 0 ELSE Head(files).Size + Usage(Tail(files))

InOrder(order, S) == SelectSeq(order, LAMBDA f : f \in S)

Range(s) == {s[i] : i \in 1..Len(s)}

Put(d, p, rec) == [o \in DOMAIN d \cup {p} |-> IF o = p THEN rec ELSE d[o]]

Remove(d, p) == [o \in DOMAIN d \ {p} |-> d[o]]

\* rclone lsjson DEST: one item per object, in listing order
rclone_ls(d) ==
    LET paths == InOrder(ListOrder, DOMAIN d)
    IN  [i \in 1..Len(paths) |->
            [Path |-> paths[i], Size |-> d[paths[i]].Size,
             ModTime |-> d[paths[i]].ModTime]]

\* min() changed to keep the last of the least items
OldestLast(files) ==
    LET i == CHOOSE k \in 1..Len(files) :
                 /\ \A j \in 1..Len(files) : files[k].ModTime <= files[j].ModTime
                 /\ \A j \in (k + 1)..Len(files) :
                        files[j].ModTime # files[k].ModTime
    IN  files[i]

\* min(files, key=ModTime): the first item with the least ModTime
Oldest(files) ==
    LET i == CHOOSE k \in 1..Len(files) :
                 /\ \A j \in 1..Len(files) : files[k].ModTime <= files[j].ModTime
                 /\ \A j \in 1..(k - 1) : files[j].ModTime # files[k].ModTime
    IN  files[i]

\* list.remove(x): drops the first item equal to x
ListRemove(files, x) ==
    LET i == CHOOSE k \in 1..Len(files) :
                 files[k] = x /\ \A j \in 1..(k - 1) : files[j] # x
    IN  SubSeq(files, 1, i - 1) \o SubSeq(files, i + 1, Len(files))

\* lines 197-201: the files whose size equals the one of the previous scan
\* lines 111-124: every over-long file is renamed; os.rename replaces a file
\* already at the new path
truncate_names(tree) ==
    [f \in {Truncated(g) : g \in DOMAIN tree} |->
        IF f = Truncated(Long) /\ Long \in DOMAIN tree
        THEN tree[Long] ELSE tree[f]]

SettledFiles(prev, new) ==
    InOrder(ScanOrder,
            {f \in DOMAIN new : f \in DOMAIN prev /\ prev[f] = new[f]})

\* Thread.is_alive(): started and not yet returned or raised
IsAlive(t) ==
    t # None /\ thr[t].pc \in {"run", "loop", "rcat", "touch", "delete"}

AliveThreads == {t \in Threads : IsAlive(t)}

NoItem == [Path |-> "", Size |-> 0, ModTime |-> 0]

NewThread ==
    [pc |-> "run", files |-> <<>>, oldest |-> NoItem, listed |-> "no"]

Ended(how) ==
    [pc |-> how, files |-> <<>>, oldest |-> NoItem, listed |-> "no"]

\* ------------------------------------------------------------------- Init
\* no entry is under truncate_names, no pool exists
NoEntry == [path |-> <<>>, was |-> <<>>, at |-> "none"]
NoExecutor ==
    [n |-> 0, queue |-> <<>>, running |-> {}, done |-> {}, found |-> {},
     collected |-> <<>>, existing |-> <<>>, at |-> "none"]

Init ==
    /\ size_limit \in {Unset} \cup Quotas
    /\ staging = EmptyMap
    /\ \E objs \in SUBSET Objects :
         dest = [o \in objs |->
                   [Size |-> IF o = Old THEN OldSize ELSE 1,
                    ModTime |-> MTime(o)]]
    /\ pc = "sleep"
    /\ prev_file_sizes = EmptyMap
    /\ new_file_sizes = EmptyMap
    /\ existing_files = <<>>
    /\ include_files = [none |-> FALSE, files |-> <<>>]
    /\ cleanup_thread = None
    /\ thr = [t \in Threads |-> Ended("unused")]
    /\ requests = <<>>
    /\ writes = 0
    /\ faults = 0
    /\ evict_failed = FALSE
    /\ joined = FALSE
    /\ MAX_PATH_LENGTH = MaxLimit
    /\ entry = NoEntry
    /\ executor = NoExecutor

\* --------------------------------------------------------------- producer
\* a producer creates a file in the staging tree, with its first unit of
\* data; more data is a Grow
Create ==
    /\ writes < MaxWrites
    /\ writes' = writes + 1
    /\ \E f \in (Files \cup {Long}) \ DOMAIN staging :
         staging' = Put(staging, f, 1)
    /\ UNCHANGED <<sideVars,
                   size_limit, dest, mainVars, cleanup_thread, thr, faults,
                   evict_failed>>

\* a producer appends to a file of the staging tree
Grow ==
    /\ writes < MaxWrites
    /\ writes' = writes + 1
    /\ \E f \in DOMAIN staging :
         /\ staging[f] < MaxSize
         /\ staging' = [staging EXCEPT ![f] = @ + 1]
    /\ UNCHANGED <<sideVars,
                   size_limit, dest, mainVars, cleanup_thread, thr, faults,
                   evict_failed>>

\* ---------------------------------------------------------------- cleanup
CleanupStartsAlways == TRUE

\* lines 152-157: start a pass unless the latest one is still alive
CleanupStarts == ~IsAlive(cleanup_thread)

cleanup ==
    IF CleanupStarts
    THEN \E t \in Threads :
           /\ ~IsAlive(t)
           /\ \A u \in Threads : u < t => IsAlive(u)
           /\ cleanup_thread' = t
           /\ thr' = [thr EXCEPT ![t] = NewThread]
           /\ requests' = Append(requests, "started")
    ELSE /\ requests' = Append(requests, "dropped")
         /\ UNCHANGED <<cleanup_thread, thr>>

\* the empty branch changed to keep the previous snapshot
PollEmptyKeepsPrev ==
    /\ pc = "sleep"
    /\ DOMAIN staging = {}
    /\ requests' = <<>>
    /\ UNCHANGED <<sideVars,
                   size_limit, writes, staging, dest, pc, prev_file_sizes,
                   new_file_sizes, existing_files, include_files,
                   cleanup_thread, thr, faults, evict_failed, joined>>

\* ------------------------------------------------------------ main loop
\* lines 183-191: the staging tree is empty
PollEmpty ==
    /\ pc = "sleep"
    /\ DOMAIN staging = {}
    /\ prev_file_sizes' = EmptyMap
    /\ requests' = <<>>
    /\ UNCHANGED <<sideVars,
                   size_limit, writes, staging, dest, pc, new_file_sizes,
                   existing_files, include_files, cleanup_thread, thr,
                   faults, evict_failed, joined>>

\* the test of line 203 changed to go on with an empty settled list
PollScanAlwaysProbes ==
    /\ pc = "sleep"
    /\ DOMAIN staging # {}
    /\ staging' = truncate_names(staging)
    /\ new_file_sizes' = staging'
    /\ requests' = <<>>
    /\ include_files' = [none |-> FALSE,
                         files |-> SettledFiles(prev_file_sizes, staging')]
    /\ pc' = "probe"
    /\ UNCHANGED <<sideVars,
                   size_limit, writes, dest, prev_file_sizes, existing_files,
                   cleanup_thread, thr, faults, evict_failed, joined>>

\* lines 183-203 and 224: truncate, scan; with nothing settled only remember
\* the scan
PollScan ==
    /\ pc = "sleep"
    /\ DOMAIN staging # {}
    /\ staging' = truncate_names(staging)
    /\ new_file_sizes' = staging'
    /\ requests' = <<>>
    /\ LET settled == SettledFiles(prev_file_sizes, staging')
       IN  /\ include_files' = [none |-> FALSE, files |-> settled]
           /\ IF Len(settled) > 0
              THEN pc' = "probe" /\ UNCHANGED prev_file_sizes
              ELSE pc' = "sleep" /\ prev_file_sizes' = staging'
    /\ UNCHANGED <<sideVars, size_limit, writes, dest, existing_files,
                   cleanup_thread, thr, faults, evict_failed, joined>>

\* lines 193 and 196: os.scandir or stat raises on an unreadable entry, in
\* truncate_names or after it in get_file_sizes; nothing catches it before
\* line 225
ScanFails ==
    /\ pc = "sleep"
    /\ DOMAIN staging # {}
    /\ faults < MaxFaults
    /\ faults' = faults + 1
    /\ requests' = <<>>
    /\ pc' = "except"
    /\ staging' \in {staging, truncate_names(staging)}
    /\ UNCHANGED <<sideVars, size_limit, writes, dest, prev_file_sizes,
                   new_file_sizes, existing_files, include_files,
                   cleanup_thread, thr, evict_failed, joined>>

NarrowedNever(include, existing) == include

\* lines 207-209: candidates found at DEST replace the settled list
Narrowed(include, existing) ==
    IF existing # <<>> THEN [none |-> FALSE, files |-> existing] ELSE include

\* lines 88-108 and 206-209: which candidates exist at DEST.  A failed
\* lsjson gives None, which counts as "does not exist" (for a path that is
\* not there lsjson fails anyway).
Probe ==
    /\ pc = "probe"
    /\ \E failed \in SUBSET (Range(include_files.files) \cap DOMAIN dest) :
         /\ Cardinality(failed) <= MaxFaults - faults
         /\ faults' = faults + Cardinality(failed)
         /\ existing_files' =
              SelectSeq(include_files.files,
                        LAMBDA f : f \in DOMAIN dest /\ f \notin failed)
    /\ include_files' = Narrowed(include_files, existing_files')
    /\ pc' = "cleanup_pre"
    /\ UNCHANGED <<sideVars,
                   size_limit, writes, staging, dest, prev_file_sizes,
                   new_file_sizes, cleanup_thread, thr, requests,
                   evict_failed, joined>>

\* lines 211-215: request eviction, then decide between a list and "all"
CleanupPre ==
    /\ pc = "cleanup_pre"
    /\ cleanup
    /\ include_files' =
         IF Len(include_files.files) = Cardinality(DOMAIN new_file_sizes)
         THEN [none |-> TRUE, files |-> <<>>]
         ELSE include_files
    /\ pc' = "move"
    /\ UNCHANGED <<sideVars,
                   size_limit, writes, staging, dest, prev_file_sizes,
                   new_file_sizes, existing_files, faults,
                   evict_failed, joined>>

\* lines 63-75: what rclone move takes: the whole tree, or the listed paths
MovedPaths ==
    IF include_files.none \/ include_files.files = <<>> THEN DOMAIN staging
    ELSE Range(include_files.files) \cap DOMAIN staging

\* line 217: the move succeeds
Move ==
    /\ pc = "move"
    /\ dest' = [o \in DOMAIN dest \cup MovedPaths |->
                  IF o \in MovedPaths
                  THEN [Size |-> staging[o], ModTime |-> MTime(o)]
                  ELSE dest[o]]
    /\ staging' = [f \in DOMAIN staging \ MovedPaths |-> staging[f]]
    /\ pc' = "notify"
    /\ UNCHANGED <<sideVars,
                   size_limit, writes, prev_file_sizes, new_file_sizes,
                   existing_files, include_files, cleanup_thread, thr,
                   requests, faults, evict_failed, joined>>

MoveFailsIgnored ==
    /\ pc = "move"
    /\ faults < MaxFaults
    /\ faults' = faults + 1
    /\ pc' = "notify"
    /\ UNCHANGED <<sideVars,
                   size_limit, writes, staging, dest, prev_file_sizes,
                   new_file_sizes, existing_files, include_files,
                   cleanup_thread, thr, requests, evict_failed, joined>>

\* line 217: rclone move exits non-zero, run(check=True) raises
MoveFails ==
    /\ pc = "move"
    /\ faults < MaxFaults
    /\ faults' = faults + 1
    /\ pc' = "except"
    /\ UNCHANGED <<sideVars,
                   size_limit, writes, staging, dest, prev_file_sizes,
                   new_file_sizes, existing_files, include_files,
                   cleanup_thread, thr, requests, evict_failed,
                   joined>>

\* plex_refresh.scan_paths: the notifier's interface names no failure
ScanPlexRaises == FALSE

\* lines 168-176 and 219-220: refresh_plex
Notify ==
    /\ pc = "notify"
    /\ pc' = IF ScanPlexRaises THEN "except" ELSE "cleanup_post"
    /\ UNCHANGED <<sideVars,
                   size_limit, writes, staging, dest, prev_file_sizes,
                   new_file_sizes, existing_files, include_files,
                   cleanup_thread, thr, requests, faults,
                   evict_failed, joined>>

CleanupPostNoRequest ==
    /\ pc = "cleanup_post"
    /\ prev_file_sizes' = new_file_sizes
    /\ pc' = "sleep"
    /\ UNCHANGED <<sideVars, size_limit, writes, staging, dest, new_file_sizes,
                   existing_files, include_files, cleanup_thread, thr,
                   requests, faults, evict_failed, joined>>

\* lines 222-224: request eviction again, remember the scan
CleanupPost ==
    /\ pc = "cleanup_post"
    /\ cleanup
    /\ prev_file_sizes' = new_file_sizes
    /\ pc' = "sleep"
    /\ UNCHANGED <<sideVars, size_limit, writes, staging, dest, new_file_sizes,
                   existing_files, include_files, faults,
                   evict_failed, joined>>

ExceptNeverWaits == FALSE

\* lines 225-228: the handler joins a pass that is still alive
ExceptWaits == IsAlive(cleanup_thread)

Except ==
    /\ pc = "except"
    /\ IF ExceptWaits
       THEN pc' = "join" /\ joined' = TRUE
       ELSE pc' = "raise" /\ UNCHANGED joined
    /\ UNCHANGED <<sideVars,
                   size_limit, writes, staging, dest, prev_file_sizes,
                   new_file_sizes, existing_files, include_files,
                   cleanup_thread, thr, requests, faults,
                   evict_failed>>

\* line 228: cleanup_thread.join() returns when the pass has ended
Join ==
    /\ pc = "join"
    /\ ~IsAlive(cleanup_thread)
    /\ pc' = "raise"
    /\ UNCHANGED <<sideVars,
                   size_limit, writes, staging, dest, prev_file_sizes,
                   new_file_sizes, existing_files, include_files,
                   cleanup_thread, thr, requests, faults,
                   evict_failed, joined>>

\* line 229: the failure leaves the main thread
Raise ==
    /\ pc = "raise"
    /\ pc' = "exited"
    /\ UNCHANGED <<sideVars,
                   size_limit, writes, staging, dest, prev_file_sizes,
                   new_file_sizes, existing_files, include_files,
                   cleanup_thread, thr, requests, faults,
                   evict_failed, joined>>

\* -------------------------------------------------------------- _cleanup
\* lines 130-132: no quota configured
PassDisabled(t) ==
    /\ thr[t].pc = "run"
    /\ size_limit = Unset
    /\ thr' = [thr EXCEPT ![t] = Ended("done")]
    /\ UNCHANGED <<sideVars,
                   size_limit, writes, staging, dest, mainVars, cleanup_thread,
                   faults, evict_failed>>

\* lines 134-137: list the destination
PassList(t) ==
    /\ thr[t].pc = "run"
    /\ size_limit # Unset
    /\ thr' = [thr EXCEPT ![t] = [pc |-> "loop", files |-> rclone_ls(dest),
                                  oldest |-> NoItem, listed |-> "ok"]]
    /\ UNCHANGED <<sideVars,
                   size_limit, writes, staging, dest, mainVars, cleanup_thread,
                   faults, evict_failed>>

\* line 137: lsjson fails, rclone_ls gives None and the catalog is []
PassListFails(t) ==
    /\ thr[t].pc = "run"
    /\ size_limit # Unset
    /\ faults < MaxFaults
    /\ faults' = faults + 1
    /\ thr' = [thr EXCEPT ![t] = [pc |-> "loop", files |-> <<>>,
                                  oldest |-> NoItem, listed |-> "failed"]]
    /\ UNCHANGED <<sideVars,
                   size_limit, writes, staging, dest, mainVars, cleanup_thread,
                   evict_failed>>

UnderLimitReversed(usage) == usage > size_limit

\* lines 139-141: the loop's exit test
UnderLimit(usage) == usage < size_limit

\* lines 139-146: leave the loop, or pick the oldest item
PassLoop(t) ==
    /\ thr[t].pc = "loop"
    /\ IF UnderLimit(Usage(thr[t].files))
       THEN thr' = [thr EXCEPT ![t] = Ended("done")]
       ELSE IF thr[t].files = <<>>
            THEN thr' = [thr EXCEPT ![t] = Ended("ValueError")]
            ELSE thr' = [thr EXCEPT ![t].pc = "rcat",
                                    ![t].oldest = Oldest(thr[t].files)]
    /\ UNCHANGED <<sideVars,
                   size_limit, writes, staging, dest, mainVars, cleanup_thread,
                   faults, evict_failed>>

\* line 147 changed to go on to the delete without the touch
PassRcatThenDelete(t) ==
    /\ thr[t].pc = "rcat"
    /\ dest' = Put(dest, thr[t].oldest.Path, [Size |-> 0, ModTime |-> Now])
    /\ thr' = [thr EXCEPT ![t].pc = "delete"]
    /\ UNCHANGED <<sideVars,
                   size_limit, writes, staging, mainVars, cleanup_thread,
                   faults, evict_failed>>

\* line 147: overwrite the object with zero bytes
PassRcat(t) ==
    /\ thr[t].pc = "rcat"
    /\ dest' = Put(dest, thr[t].oldest.Path, [Size |-> 0, ModTime |-> Now])
    /\ thr' = [thr EXCEPT ![t].pc = "touch"]
    /\ UNCHANGED <<sideVars,
                   size_limit, writes, staging, mainVars, cleanup_thread,
                   faults, evict_failed>>

\* line 148: rclone touch
PassTouch(t) ==
    /\ thr[t].pc = "touch"
    /\ dest' = IF thr[t].oldest.Path \in DOMAIN dest
               THEN [dest EXCEPT ![thr[t].oldest.Path].ModTime = Now]
               ELSE Put(dest, thr[t].oldest.Path,
                        [Size |-> 0, ModTime |-> Now])
    /\ thr' = [thr EXCEPT ![t].pc = "delete"]
    /\ UNCHANGED <<sideVars,
                   size_limit, writes, staging, mainVars, cleanup_thread,
                   faults, evict_failed>>

\* lines 149-150: delete the object and drop it from the catalog
PassDelete(t) ==
    /\ thr[t].pc = "delete"
    /\ dest' = Remove(dest, thr[t].oldest.Path)
    /\ thr' = [thr EXCEPT ![t].pc = "loop",
                          ![t].files = ListRemove(@, thr[t].oldest),
                          ![t].oldest = NoItem]
    /\ UNCHANGED <<sideVars,
                   size_limit, writes, staging, mainVars, cleanup_thread,
                   faults, evict_failed>>

\* lines 147-149: rcat, touch or delete exits non-zero; run(check=True)
\* raises inside the thread, which ends
PassStepFails(t) ==
    /\ thr[t].pc \in {"rcat", "touch", "delete"}
    /\ faults < MaxFaults
    /\ faults' = faults + 1
    /\ evict_failed' = TRUE
    /\ thr' = [thr EXCEPT ![t] = Ended("CalledProcessError")]
    /\ UNCHANGED <<sideVars,
                   size_limit, writes, staging, dest, mainVars, cleanup_thread>>

Pass(t) ==
    \/ PassDisabled(t)
    \/ PassList(t)
    \/ PassListFails(t)
    \/ PassLoop(t)
    \/ PassRcat(t)
    \/ PassTouch(t)
    \/ PassDelete(t)
    \/ PassStepFails(t)

Next ==
    \/ Create
    \/ Grow
    \/ PollEmpty
    \/ PollScan
    \/ ScanFails
    \/ Probe
    \/ CleanupPre
    \/ Move
    \/ MoveFails
    \/ Notify
    \/ CleanupPost
    \/ Except
    \/ Join
    \/ Raise
    \/ \E t \in Threads : Pass(t)

Spec == Init /\ [][Next]_vars

\* ------------------------------------------- the program without failures
\* as Init, with no failure left to happen
LiveInit ==
    /\ size_limit \in {Unset} \cup Quotas
    /\ staging = EmptyMap
    /\ \E objs \in SUBSET Objects :
         dest = [o \in objs |->
                   [Size |-> IF o = Old THEN OldSize ELSE 1,
                    ModTime |-> MTime(o)]]
    /\ pc = "sleep"
    /\ prev_file_sizes = EmptyMap
    /\ new_file_sizes = EmptyMap
    /\ existing_files = <<>>
    /\ include_files = [none |-> FALSE, files |-> <<>>]
    /\ cleanup_thread = None
    /\ thr = [t \in Threads |-> Ended("unused")]
    /\ requests = <<>>
    /\ writes = 0
    /\ faults = MaxFaults
    /\ evict_failed = FALSE
    /\ joined = FALSE
    /\ MAX_PATH_LENGTH = MaxLimit
    /\ entry = NoEntry
    /\ executor = NoExecutor

\* the producer of this specification: it writes a file of the same name
\* and size again whenever it is gone from the staging tree, without end
Rewrite ==
    /\ \E g \in Files \ DOMAIN staging : staging' = Put(staging, g, 1)
    /\ UNCHANGED <<sideVars, size_limit, writes, dest, mainVars,
                   cleanup_thread, thr, faults, evict_failed>>

\* lines 182-224: the steps of the main thread
MainLoop ==
    \/ PollEmpty
    \/ PollScan
    \/ Probe
    \/ CleanupPre
    \/ Move
    \/ Notify
    \/ CleanupPost

\* lines 128-150: the steps of a pass
LivePass(t) ==
    \/ PassDisabled(t)
    \/ PassList(t)
    \/ PassLoop(t)
    \/ PassRcat(t)
    \/ PassTouch(t)
    \/ PassDelete(t)

LiveNext ==
    \/ Rewrite
    \/ MainLoop
    \/ \E t \in Threads : LivePass(t)

\* the main thread and every started pass keep running; nothing is assumed
\* of the producer
LiveSpec ==
    /\ LiveInit
    /\ [][LiveNext]_vars
    /\ WF_vars(MainLoop)
    /\ \A t \in Threads : WF_vars(LivePass(t))

\* ------------------------------------------------- truncate_names, one path
\* the characters of a path: the separator, the extension separator, another
Chars == {"/", ".", "x"}

\* the last index of c in p, 0 when there is none (str.rfind, counted from 1)
RFind(p, c) ==
    LET at == {i \in 1..Len(p) : p[i] = c}
    IN  IF at = {} THEN 0 ELSE CHOOSE i \in at : \A j \in at : j <= i

\* the part of a path after its last separator
BaseName(p) == SubSeq(p, RFind(p, "/") + 1, Len(p))

\* f.path of a file that os.scandir yields below SOURCE: absolute, with a
\* name that is not empty and neither "." nor ".."
Paths ==
    {p \in UNION {[1..n -> Chars] : n \in 2..MaxPath} :
        /\ p[1] = "/"
        /\ BaseName(p) \notin {<<>>, <<".">>, <<".", ".">>}}

\* os.path.splitext: <<root, ext>>; the extension starts at the last dot
\* after the last separator, unless only dots come before it in the name
splitext(p) ==
    LET sepIndex == RFind(p, "/")
        dotIndex == RFind(p, ".")
    IN  IF /\ dotIndex > sepIndex
           /\ \E i \in (sepIndex + 1)..(dotIndex - 1) : p[i] # "."
        THEN <<SubSeq(p, 1, dotIndex - 1), SubSeq(p, dotIndex, Len(p))>>
        ELSE <<p, <<>>>>

\* p[:n] of Python: a negative n counts from the end
Slice(p, n) ==
    IF n >= 0
    THEN SubSeq(p, 1, IF n < Len(p) THEN n ELSE Len(p))
    ELSE SubSeq(p, 1, IF Len(p) + n > 0 THEN Len(p) + n ELSE 0)

\* lines 120-122
new_path(p) ==
    LET path == splitext(p)[1]
        ext == splitext(p)[2]
        length == MAX_PATH_LENGTH - Len(ext) - 1
    IN  Slice(path, length) \o ext

\* the main loop, the passes and the pool at rest
AtRest ==
    /\ size_limit = Unset
    /\ staging = EmptyMap
    /\ dest = EmptyMap
    /\ pc = "sleep"
    /\ prev_file_sizes = EmptyMap
    /\ new_file_sizes = EmptyMap
    /\ existing_files = <<>>
    /\ include_files = [none |-> FALSE, files |-> <<>>]
    /\ cleanup_thread = None
    /\ thr = [t \in Threads |-> Ended("unused")]
    /\ requests = <<>>
    /\ writes = 0
    /\ faults = 0
    /\ evict_failed = FALSE
    /\ joined = FALSE

restVars ==
    <<size_limit, staging, dest, mainVars, cleanup_thread, thr, writes,
      faults, evict_failed>>

TruncInit ==
    /\ AtRest
    /\ MAX_PATH_LENGTH \in 0..MaxLimit
    /\ \E p \in Paths : entry = [path |-> p, was |-> p, at |-> "scandir"]
    /\ executor = NoExecutor

\* lines 112 and 119: no maximum is set, or the path is not longer than it
Keep ==
    /\ entry.at = "scandir"
    /\ MAX_PATH_LENGTH = 0 \/ Len(entry.path) <= MAX_PATH_LENGTH
    /\ entry' = [entry EXCEPT !.at = "kept"]
    /\ UNCHANGED <<restVars, MAX_PATH_LENGTH, executor>>

\* lines 119-124: the path is too long and the file is renamed
Rename ==
    /\ entry.at = "scandir"
    /\ MAX_PATH_LENGTH # 0
    /\ Len(entry.path) > MAX_PATH_LENGTH
    /\ entry' = [entry EXCEPT !.path = new_path(entry.path),
                              !.at = "renamed"]
    /\ UNCHANGED <<restVars, MAX_PATH_LENGTH, executor>>

TruncNext == Keep \/ Rename

TruncSpec == TruncInit /\ [][TruncNext]_vars

\* --------------------------------------------- get_existing_files, its pool
\* the candidates are numbered in the order of include_files
Candidates == 1..executor.n

ProbeInit ==
    /\ AtRest
    /\ MAX_PATH_LENGTH = MaxLimit
    /\ entry = NoEntry
    /\ \E n \in 1..MaxCandidates :
         executor = [n |-> n, queue |-> <<>>, running |-> {}, done |-> {},
                     found |-> {}, collected |-> <<>>, existing |-> <<>>,
                     at |-> "submit"]

\* the pool changed to start a worker for every queued check
WorkerFreeAlways == TRUE

\* line 98: a check starts only while fewer than max_workers are running
WorkerFree == Cardinality(executor.running) < max_workers

\* line 100: executor.submit of the next candidate; after the last one the
\* caller goes on to collect
Submit ==
    /\ executor.at = "submit"
    /\ LET c == Len(executor.queue) + Cardinality(executor.running)
                  + Cardinality(executor.done) + 1
       IN  executor' = [executor EXCEPT
                          !.queue = Append(@, c),
                          !.at = IF c = executor.n THEN "collect" ELSE @]
    /\ UNCHANGED <<restVars, MAX_PATH_LENGTH, entry>>

\* a worker takes the oldest queued check and calls check_file_exists
Start ==
    /\ executor.queue # <<>>
    /\ WorkerFree
    /\ executor' = [executor EXCEPT
                      !.queue = Tail(@),
                      !.running = @ \cup {Head(executor.queue)}]
    /\ UNCHANGED <<restVars, MAX_PATH_LENGTH, entry>>

\* lines 88-91: a check returns (file_path, exists)
Finish ==
    /\ \E c \in executor.running, exists \in BOOLEAN :
         executor' = [executor EXCEPT
                        !.running = @ \ {c},
                        !.done = @ \cup {c},
                        !.found = IF exists THEN @ \cup {c} ELSE @]
    /\ UNCHANGED <<restVars, MAX_PATH_LENGTH, entry>>

\* lines 103-106: future.result() of the next future, in submission order;
\* it returns once that check is done
Collect ==
    /\ executor.at = "collect"
    /\ LET c == Len(executor.collected) + 1
       IN  /\ c \in executor.done
           /\ executor' = [executor EXCEPT
                  !.collected = Append(@, c),
                  !.existing = IF c \in executor.found
                               THEN Append(@, c) ELSE @,
                  !.at = IF c = executor.n THEN "shutdown" ELSE @]
    /\ UNCHANGED <<restVars, MAX_PATH_LENGTH, entry>>

\* the end of the with block: shutdown(wait=True), then line 108
Shutdown ==
    /\ executor.at = "shutdown"
    /\ executor.queue = <<>>
    /\ executor.running = {}
    /\ executor' = [executor EXCEPT !.at = "returned"]
    /\ UNCHANGED <<restVars, MAX_PATH_LENGTH, entry>>

\* lines 207-217: the caller goes on to cleanup() and then to rclone_move
Proceed ==
    /\ executor.at \in {"returned", "cleanup"}
    /\ executor' = [executor EXCEPT
                      !.at = IF @ = "returned" THEN "cleanup" ELSE "move"]
    /\ UNCHANGED <<restVars, MAX_PATH_LENGTH, entry>>

ProbeNext == Submit \/ Start \/ Finish \/ Collect \/ Shutdown \/ Proceed

ProbeSpec == ProbeInit /\ [][ProbeNext]_vars

\* ----------------------------------------------------------------- claims
PassStarts == \E t \in Threads : ~IsAlive(t) /\ thr'[t].pc = "run"

AtCleanupCall == pc \in {"cleanup_pre", "cleanup_post"}

EvictingThreads == {t \in Threads : thr[t].pc \in {"rcat", "touch", "delete"}}

SettledSet ==
    {f \in DOMAIN new_file_sizes :
       f \in DOMAIN prev_file_sizes /\ prev_file_sizes[f] = new_file_sizes[f]}

DestUsage == Usage(rclone_ls(dest))

\* C1: at most one _cleanup thread is alive in every reachable state; a pass
\* only ever starts in a cleanup() call made while no pass is alive, and a
\* cleanup() call made while a pass is alive changes no thread and is logged
\* as dropped (so nothing is queued: no pass starts outside a call).
C1_SingleFlight ==
    /\ [](Cardinality(AliveThreads) <= 1)
    /\ [][PassStarts => (AtCleanupCall /\ AliveThreads = {})]_vars
    /\ [][(AtCleanupCall /\ pc' # pc /\ AliveThreads # {}) =>
            /\ thr' = thr
            /\ cleanup_thread' = cleanup_thread
            /\ requests' = Append(requests, "dropped")]_vars

\* a cycle whose pre-transfer call started a pass and whose post-transfer
\* call was dropped because that pass was still alive
C1_Witness ==
    /\ pc = "sleep"
    /\ requests = <<"started", "dropped">>
    /\ Cardinality(AliveThreads) = 1

C3_Original ==
    [][\A t \in Threads :
          (thr[t].pc = "loop" /\ thr'[t].pc \notin {"loop", "rcat"}) =>
             /\ thr'[t].pc = "done"
             /\ \/ Usage(thr[t].files) < size_limit
                \/ thr[t].files = <<>>]_vars

\* C4: every step that overwrites, touches or deletes a destination object
\* is taken by a pass with a quota configured whose in-memory catalog has a
\* total size of at least the quota; a pass is in its rcat/touch/delete
\* steps only in that case.
C4_NoEvictionBelowQuota ==
    /\ [](\A t \in EvictingThreads :
             size_limit # Unset /\ Usage(thr[t].files) >= size_limit)
    /\ [][(dest' # dest /\ pc' = pc) =>
            \E t \in EvictingThreads :
               /\ thr'[t] # thr[t]
               /\ size_limit # Unset
               /\ Usage(thr[t].files) >= size_limit]_vars

\* a pass that listed a non-empty destination below the quota
C4_Witness ==
    \E t \in Threads :
       /\ thr[t].pc = "loop"
       /\ thr[t].files # <<>>
       /\ Usage(thr[t].files) < size_limit

\* C5: a move only starts after exactly one cleanup() call of its cycle, a
\* successful move is followed by notify and then the second call, and the
\* cycle ends with exactly two calls; cycles without a move make none.
C5_TwoRequests ==
    /\ [](pc \in {"move", "notify", "cleanup_post"} => Len(requests) = 1)
    /\ [](pc \in {"probe", "cleanup_pre"} => Len(requests) = 0)
    /\ [](pc = "sleep" => Len(requests) \in {0, 2})
    /\ [][(pc = "move" /\ pc' # pc) => pc' \in {"notify", "except"}]_vars
    /\ [][(pc = "notify" /\ pc' # pc) => pc' = "cleanup_post"]_vars
    /\ [][(pc = "cleanup_post" /\ pc' # pc) =>
            (pc' = "sleep" /\ Len(requests') = 2)]_vars

\* the end of a cycle that moved files
C5_Witness == pc = "sleep" /\ Len(requests) = 2

\* C6 (as claimed): once a cycle has moved files and everything has come to
\* rest without any failure (main loop sleeping, staging tree empty, no
\* rclone invocation failed, every pass has ended normally), the destination
\* is below the quota or empty.
C6_Original ==
    (/\ pc = "sleep"
     /\ Len(requests) = 2
     /\ DOMAIN staging = {}
     /\ \A t \in Threads : thr[t].pc \in {"unused", "done"}
     /\ faults = 0
     /\ size_limit # Unset)
    => (DestUsage < size_limit \/ DOMAIN dest = {})

\* C7 (as claimed): when the move is about to start, the pass requested
\* before it has completed.
C7_Original == pc = "move" => AliveThreads = {}

\* C8: when the move starts, with S the settled set, C the current scan and
\* E the probe's result: the batch is the list E if E is a non-empty strict
\* subset of S; if E is empty it is "all" when S = C and the list S otherwise.
C8_BatchSelection ==
    pc = "move" =>
       LET S == SettledSet
           E == Range(existing_files)
       IN  /\ E \subseteq S
           /\ S # {}
           /\ (E # {} /\ E # S) =>
                include_files = [none |-> FALSE, files |-> InOrder(ScanOrder, E)]
           /\ (E = {}) =>
                include_files =
                  IF S = DOMAIN new_file_sizes
                  THEN [none |-> TRUE, files |-> <<>>]
                  ELSE [none |-> FALSE, files |-> InOrder(ScanOrder, S)]

\* a move of a non-empty strict subset of the settled set
C8_Witness ==
    /\ pc = "move"
    /\ existing_files # <<>>
    /\ Range(existing_files) # SettledSet

\* C9: the failure leaves the main thread (line 229) only when no pass is
\* alive.
C9_DrainBeforeExit == pc \in {"raise", "exited"} => AliveThreads = {}

\* the main loop failed while a pass was alive, waited, and has exited
C9_Witness == pc = "exited" /\ joined

\* C10 (as claimed): after an rcat, touch or delete of a pass has failed, no
\* poll, move or pass is started.
C10_Original ==
    [][evict_failed =>
         /\ ~(pc = "sleep" /\ <<pc, prev_file_sizes, new_file_sizes>>' #
                              <<pc, prev_file_sizes, new_file_sizes>>)
         /\ ~(pc = "move" /\ pc' = "notify")
         /\ ~PassStarts]_vars

Failing == {"except", "join", "raise", "exited"}

AfterFailure ==
    /\ pc' \in Failing
    /\ DOMAIN staging \subseteq DOMAIN staging'
    /\ UNCHANGED <<requests, cleanup_thread, prev_file_sizes>>
    /\ ~PassStarts

\* C11: the main loop leaves line 217 either with the batch moved or into
\* the except handler with nothing moved; from the handler on there is no
\* notification, no cleanup() call, no poll and no second move: the main
\* thread only goes on to the raise of line 229.
C11_TransferFailureFatal ==
    /\ [][(pc = "move" /\ pc' # pc) =>
            \/ /\ pc' = "notify"
               /\ faults' = faults
               /\ MovedPaths # {}
               /\ DOMAIN staging' = DOMAIN staging \ MovedPaths
               /\ MovedPaths \subseteq DOMAIN dest'
            \/ /\ pc' = "except"
               /\ faults' = faults + 1
               /\ UNCHANGED <<staging, dest, requests, thr>>]_vars
    /\ [][(pc \in Failing) => AfterFailure]_vars

\* the process has exited after a failed move: one cleanup() call was made
C11_Witness == pc = "exited" /\ Len(requests) = 1

\* C12 (as claimed): a poll of a non-empty tree never ends in the except
\* handler: the main loop stays at its sleep or goes on to the probe.
C12_Original ==
    [][(pc = "sleep" /\ DOMAIN staging # {} /\ pc' # pc) =>
          pc' = "probe"]_vars

\* C13 (as claimed): a failed existence check only makes its candidate count
\* as missing and the main loop goes on to cleanup(); a pass whose listing
\* failed changes nothing at the destination and its next step is a normal
\* return.
C13_Original ==
    /\ [][(pc = "probe" /\ pc' # pc) =>
            LET cands == Range(include_files.files) \cap DOMAIN dest
            IN  /\ pc' = "cleanup_pre"
                /\ Range(existing_files') \subseteq cands
                /\ Cardinality(cands \ Range(existing_files')) =
                     faults' - faults]_vars
    /\ [][\A t \in Threads :
            (thr[t].listed = "failed" /\ thr'[t] # thr[t]) =>
               (thr'[t].pc = "done" /\ dest' = dest /\ pc' = pc)]_vars

Evicting == {"rcat", "touch", "delete"}

\* C15: while a pass works on an object, that object is an item of the
\* pass's catalog with the least ModTime of the catalog, and no item before
\* it in listing order has the same ModTime.
C15_OldestFirst ==
    \A t \in Threads :
        thr[t].pc \in Evicting =>
            \E i \in 1..Len(thr[t].files) :
                /\ thr[t].files[i] = thr[t].oldest
                /\ \A j \in 1..Len(thr[t].files) :
                       thr[t].oldest.ModTime <= thr[t].files[j].ModTime
                /\ \A j \in 1..(i - 1) :
                       thr[t].files[j].ModTime # thr[t].oldest.ModTime

\* a pass is about to overwrite an object whose ModTime is shared by another
\* item of its catalog
C15_Witness ==
    \E t \in Threads :
        /\ thr[t].pc = "rcat"
        /\ \E j \in 1..Len(thr[t].files) :
               /\ thr[t].files[j] # thr[t].oldest
               /\ thr[t].files[j].ModTime = thr[t].oldest.ModTime

EvictionOrder(t) ==
    /\ (thr'[t].pc = "rcat" /\ thr[t].pc # "rcat") => thr[t].pc = "loop"
    /\ (thr'[t].pc = "touch" /\ thr[t].pc # "touch") =>
          /\ thr[t].pc = "rcat"
          /\ thr'[t].oldest = thr[t].oldest
          /\ dest'[thr[t].oldest.Path].Size = 0
    /\ (thr'[t].pc = "delete" /\ thr[t].pc # "delete") =>
          /\ thr[t].pc = "touch"
          /\ thr'[t].oldest = thr[t].oldest
          /\ dest'[thr[t].oldest.Path].ModTime = Now
    /\ (thr[t].pc = "delete" /\ thr'[t].pc = "loop") =>
          thr[t].oldest.Path \notin DOMAIN dest'
    /\ (thr[t].pc \in Evicting /\ thr'[t].pc \notin Evicting \cup {"loop"}) =>
          /\ thr'[t].pc = "CalledProcessError"
          /\ dest' = dest
    /\ (thr[t].pc = "CalledProcessError" /\ thr'[t] # thr[t]) =>
          thr'[t] = NewThread

\* C16: a pass reaches the touch of an object only from its zero-overwrite
\* and the delete only from its touch; an object leaves the destination
\* only in the delete step of a pass working on it; a failed step ends the
\* pass with the destination as it was and the ended pass takes no further
\* step.
C16_EvictionOrder ==
    [][/\ \A t \in Threads : EvictionOrder(t)
       /\ \A o \in DOMAIN dest \ DOMAIN dest' :
             \E t \in Threads : /\ thr[t].pc = "delete"
                                /\ thr[t].oldest.Path = o
                                /\ thr'[t].pc = "loop"]_vars

\* an object has been overwritten and touched and is about to be deleted
C16_Witness ==
    \E t \in Threads :
        /\ thr[t].pc = "delete"
        /\ thr[t].oldest.Path \in DOMAIN dest
        /\ dest[thr[t].oldest.Path].Size = 0
        /\ thr[t].oldest.Size > 0

\* a step of the main loop that is not a failure: the producer, the passes
\* and the fault budget stand still
MainStep == writes' = writes /\ thr' = thr /\ faults' = faults

\* C18: a poll of an empty tree leaves the previous snapshot empty and the
\* main loop at its sleep, with the destination, the pass and the scan
\* results as they were; and from an empty previous snapshot the next poll
\* never goes on to the probe: its settled list is empty.
C18_EmptyPoll ==
    /\ [][(pc = "sleep" /\ DOMAIN staging = {} /\ MainStep) =>
            /\ prev_file_sizes' = EmptyMap
            /\ pc' = "sleep"
            /\ UNCHANGED <<staging, dest, cleanup_thread, new_file_sizes,
                           existing_files, include_files>>]_vars
    /\ [][(pc = "sleep" /\ prev_file_sizes = EmptyMap) =>
            /\ pc' # "probe"
            /\ include_files' # include_files =>
                 include_files'.files = <<>>]_vars

\* after an empty poll a file is back in the tree with the path and size the
\* last scan recorded
C18_Witness ==
    /\ pc = "sleep"
    /\ prev_file_sizes = EmptyMap
    /\ \E f \in DOMAIN staging \cap DOMAIN new_file_sizes :
          staging[f] = new_file_sizes[f]

\* a poll of a non-empty tree in which no file is settled
UnsettledPoll ==
    /\ pc = "sleep"
    /\ DOMAIN staging # {}
    /\ SettledFiles(prev_file_sizes, truncate_names(staging)) = <<>>
    /\ MainStep

\* a pass is started only by the cleanup() call before the move, which goes
\* on to line 217, or by the one after the move of the same cycle
PassOnlyWithMove ==
    PassStarts => \/ pc = "cleanup_pre" /\ pc' = "move"
                  \/ pc = "cleanup_post" /\ pc' = "sleep"

C14_Original ==
    (MAX_PATH_LENGTH # 0 /\ entry.at \in {"kept", "renamed"}) =>
        IF Len(entry.was) > MAX_PATH_LENGTH
        THEN /\ entry.at = "renamed"
             /\ Len(entry.path) = MAX_PATH_LENGTH
             /\ splitext(entry.path)[2] = splitext(entry.was)[2]
        ELSE entry.path = entry.was

\* C17: never more than 5 existence checks are running, and the caller is
\* at or past the return of get_existing_files (at cleanup(), at the move)
\* only when every candidate's check was submitted, is done and has been
\* collected, in submission order.
C17_ProbeBarrier ==
    /\ Cardinality(executor.running) <= 5
    /\ executor.at \in {"returned", "cleanup", "move"} =>
          /\ executor.done = Candidates
          /\ executor.running = {}
          /\ executor.queue = <<>>
          /\ executor.collected = [i \in Candidates |-> i]
          /\ Range(executor.existing) = executor.found

\* the move starts after a probe of more candidates than the pool has
\* workers, some of them found at the destination
C17_Witness ==
    /\ executor.at = "move"
    /\ executor.n > max_workers
    /\ executor.existing # <<>>

\* C19 (as claimed): with no failing operation, a file of the staging tree
\* is eventually moved out of it (its size is bounded, so it stops changing
\* unless it is moved), whatever the producer does to the other files and
\* whichever batches were narrowed before.
C19_Original ==
    \A g \in Files : [](g \in DOMAIN staging => <>(g \notin DOMAIN staging))

====
